---------------------------- MODULE Spec2Model ----------------------------
(***************************************************************************)
(* MessageStore / MessageProcessor of the chat-message exercise.           *)
(*                                                                         *)
(*   src/Mandates/codefiles/chat_message.py         ChatMessage            *)
(*   src/Mandates/codefiles/message_store.py        MessageStore           *)
(*   src/vox-stitchs/old/codefiles/message_processor.py  MessageProcessor  *)
(*   src/Mandates/codefiles/chat_cli.py             main (the callers)     *)
(*                                                                         *)
(* Python objects live in `heap` (a message's identity is its index);      *)
(* the store's two indexes hold references (indices), as the lists of the  *)
(* code hold references to the same ChatMessage instances.  Texts that are *)
(* inspected character by character (content, keyword) are sequences of    *)
(* one-character strings; sender and platform, which are only compared,    *)
(* are strings.  An Optional[str] argument is <<>> (None) or <<s>>.        *)
(***************************************************************************)
EXTENDS Integers, Sequences, FiniteSets, TLC

VARIABLES
    heap,       \* the ChatMessage objects constructed so far
    messages,   \* MessageStore.messages : list of references
    platforms,  \* MessageStore.platforms : dict platform -> list of references
    call,       \* the last call made: its name and arguments
    ret         \* what that call returned

vars == <<heap, messages, platforms, call, ret>>

---------------------------------------------------------------------------
(* Bounds of the model. *)

MaxObjs == 2        \* ChatMessage objects constructed (Spec)
MaxStore == 3       \* references stored (Spec)
MaxText == 2        \* messages stored (SpecText)
MaxWindow == 11     \* messages stored (SpecWindow): more than the default limit
MaxAvg == 7         \* messages stored (SpecAvg)

(* Program constants. *)

DefaultLimit == 10  \* get_messages(..., limit: int = 10)
MantDig == 53       \* significand bits of a Python float (IEEE-754 binary64)

---------------------------------------------------------------------------
(* Python built-ins the code uses. *)

Min(a, b) == IF a <= b THEN a ELSE b

Max(a, b) == IF a >= b THEN a ELSE b

None == <<>>

Some(s) == <<s>>

\* bool(platform) of an Optional[str]: None and "" are falsy.
Truthy(opt) == opt # None /\ opt[1] # ""

\* s[start:] : a negative start counts from the end, and both are clamped.
PySliceFrom(s, start) ==
    LET n  == Len(s)
        lo == IF start < 0 THEN Max(n + start, 0) ELSE Min(start, n)
    IN  SubSeq(s, lo + 1, n)

\* d.get(k, default)
DictGet(d, k, default) == IF k \in DOMAIN d THEN d[k] ELSE default

\* d[k] = v
DictSet(d, k, v) == [x \in DOMAIN d \cup {k} |-> IF x = k THEN v ELSE d[x]]

EmptyDict == [x \in {} |-> 0]

\* str.lower(), character by character.
LowerChar(c) ==
    CASE c = "A" -> "a"
      [] c = "B" -> "b"
      [] c = "H" -> "h"
      [] c = "I" -> "i"
      [] c = "S" -> "s"
      [] OTHER   -> c

Lower(s) == [i \in 1..Len(s) |-> LowerChar(s[i])]

\* `sub in s` for two strings.
StrIn(sub, s) ==
    \E i \in 0..(Len(s) - Len(sub)) : SubSeq(s, i + 1, i + Len(sub)) = sub

Whitespace == {" ", "\t"}

\* (mutant) content.split(" "): every single space separates, also an
\* empty token, and a tab does not.
RECURSIVE SplitOnSpaceFrom(_, _, _)
SplitOnSpaceFrom(s, i, cur) ==
    IF i > Len(s) THEN <<cur>>
    ELSE IF s[i] = " "
         THEN <<cur>> \o SplitOnSpaceFrom(s, i + 1, <<>>)
         ELSE SplitOnSpaceFrom(s, i + 1, Append(cur, s[i]))

SplitOnSpace(s) == SplitOnSpaceFrom(s, 1, <<>>)

\* str.split(): the maximal runs of non-whitespace characters, in order.
\* `cur` is the token being read.
RECURSIVE SplitFrom(_, _, _)
SplitFrom(s, i, cur) ==
    IF i > Len(s) THEN (IF cur = <<>> THEN <<>> ELSE <<cur>>)
    ELSE IF s[i] \in Whitespace
         THEN (IF cur = <<>> THEN <<>> ELSE <<cur>>) \o SplitFrom(s, i + 1, <<>>)
         ELSE SplitFrom(s, i + 1, Append(cur, s[i]))

Split(s) == SplitFrom(s, 1, <<>>)

---------------------------------------------------------------------------
(* ChatMessage *)

\* ChatMessage.__init__; `now` stands for datetime.now().
ChatMessage(content, sender, platform, now) ==
    [content   |-> content,
     sender    |-> sender,
     platform  |-> platform,
     timestamp |-> now,
     metadata  |-> EmptyDict]

\* ChatMessage.add_metadata
add_metadata(msg, key, value) ==
    [msg EXCEPT !.metadata = DictSet(msg.metadata, key, value)]

---------------------------------------------------------------------------
(* MessageStore.  `h` is the heap at the time of the call, `m` a reference. *)

\* (mutant) the platform list is created anew on every call.
add_message_reset(h, m) ==
    /\ messages' = Append(messages, m)
    /\ platforms' = DictSet(platforms, h[m].platform, <<m>>)

\* (mutant) self.messages.insert(0, message)
add_message_front(h, m) ==
    /\ messages' = <<m>> \o messages
    /\ platforms' = LET p == h[m].platform
                    IN  DictSet(platforms, p, Append(DictGet(platforms, p, <<>>), m))

\* MessageStore.add_message: the two appends.
add_message(h, m) ==
    /\ messages' = Append(messages, m)
    /\ platforms' = LET p    == h[m].platform
                        seen == IF p \in DOMAIN platforms
                                THEN platforms
                                ELSE DictSet(platforms, p, <<>>)
                    IN  DictSet(seen, p, Append(seen[p], m))

\* MessageStore.get_messages: the value returned.
get_messages(platform, limit) ==
    LET msgs == IF Truthy(platform)
                THEN DictGet(platforms, platform[1], <<>>)
                ELSE messages
    IN  PySliceFrom(msgs, -limit)

\* (mutant) the keyword is not lowered: keyword in msg.content.lower()
search_messages_cased(keyword) ==
    SelectSeq(messages, LAMBDA m : StrIn(keyword, Lower(heap[m].content)))

\* MessageStore.search_messages: the value returned.
search_messages(keyword) ==
    SelectSeq(messages,
              LAMBDA m : StrIn(Lower(keyword), Lower(heap[m].content)))

---------------------------------------------------------------------------
(* Python numbers: int / int is the IEEE-754 binary64 value nearest to the *)
(* exact quotient (ties to even).  A float is its significand, MantDig     *)
(* bits with the most significant first and equal to 1, and the exponent   *)
(* of that first bit; 0.0 has the empty significand.  Unbounded naturals   *)
(* are sequences of bits, most significant first, without leading zeros.   *)
(* The ints of the model stay below 2^22, so that no step overflows.       *)

\* The index of the first 1 of a sequence of bits (Len + 1 if none).
FirstOne(bits) ==
    LET ones == {i \in 1..Len(bits) : bits[i] = 1}
    IN  IF ones = {} THEN Len(bits) + 1
        ELSE CHOOSE i \in ones : \A j \in ones : i <= j

Strip(bits) == SubSeq(bits, FirstOne(bits), Len(bits))

Zeros(k) == [i \in 1..k |-> 0]

\* The low `width` bits of the int k.
BitsOf(k, width) == [i \in 1..width |-> (k \div 2^(width - i)) % 2]

\* The int k >= 0 (below 2^31) as a natural.
Bin(k) == Strip(BitsOf(k, 31))

\* A natural as base-256 digits, most significant first.
ToLimbs(bits) ==
    LET pad == Zeros((8 - (Len(bits) % 8)) % 8) \o bits
    IN  [j \in 1..(Len(pad) \div 8) |->
            LET o == 8 * (j - 1)
            IN  128 * pad[o + 1] + 64 * pad[o + 2] + 32 * pad[o + 3]
                + 16 * pad[o + 4] + 8 * pad[o + 5] + 4 * pad[o + 6]
                + 2 * pad[o + 7] + pad[o + 8]]

FromLimbs(limbs) ==
    Strip([i \in 1..(8 * Len(limbs)) |->
              (limbs[(i - 1) \div 8 + 1] \div 2^(7 - ((i - 1) % 8))) % 2])

\* limbs * k + c, digit by digit from the least significant.
RECURSIVE MulAddLimbs(_, _, _)
MulAddLimbs(limbs, k, c) ==
    IF limbs = <<>>
    THEN (IF c = 0 THEN <<>> ELSE Append(MulAddLimbs(<<>>, k, c \div 256), c % 256))
    ELSE LET t == limbs[Len(limbs)] * k + c
         IN  Append(MulAddLimbs(SubSeq(limbs, 1, Len(limbs) - 1), k, t \div 256),
                    t % 256)

\* bits * k + c, for a natural `bits` and ints k >= 1, c >= 0.
MulAdd(bits, k, c) == FromLimbs(MulAddLimbs(ToLimbs(bits), k, c))

FloatZero == [sig |-> <<>>, exp |-> 0]

\* sig + 1 for MantDig bits: one bit longer when all of them are 1.
Increment(sig) ==
    LET zeros == {i \in 1..Len(sig) : sig[i] = 0}
    IN  IF zeros = {} THEN <<1>> \o Zeros(Len(sig))
        ELSE LET z == CHOOSE i \in zeros : \A j \in zeros : i >= j
             IN  [i \in 1..Len(sig) |->
                     IF i < z THEN sig[i] ELSE IF i = z THEN 1 ELSE 0]

\* Round a natural of more than MantDig bits, whose first bit has exponent
\* `exp`, to MantDig bits: to nearest, ties to even.  `sticky` tells that
\* the exact value has non-zero bits below those of `bits`.
RoundToFloat(bits, exp, sticky) ==
    LET sig   == SubSeq(bits, 1, MantDig)
        guard == bits[MantDig + 1]
        rest  == sticky \/ \E i \in (MantDig + 2)..Len(bits) : bits[i] = 1
        up    == guard = 1 /\ (rest \/ sig[MantDig] = 1)
        inc   == Increment(sig)
    IN  IF ~up THEN [sig |-> sig, exp |-> exp]
        ELSE IF Len(inc) > MantDig
             THEN [sig |-> SubSeq(inc, 1, MantDig), exp |-> exp + 1]
             ELSE [sig |-> inc, exp |-> exp]

\* Long division of r / n (0 <= r < n) below the binary point, eight bits a
\* step, appended to `acc` until more than MantDig significant bits are
\* there.  `exp` is the exponent of acc's first bit (of the next bit while
\* acc is empty).
RECURSIVE DivBits(_, _, _, _)
DivBits(r, n, acc, exp) ==
    IF Len(acc) > MantDig THEN RoundToFloat(acc, exp, r # 0)
    ELSE LET digit == BitsOf((256 * r) \div n, 8)
             r2    == (256 * r) % n
         IN  IF acc = <<>>
             THEN DivBits(r2, n, Strip(digit), exp - (FirstOne(digit) - 1))
             ELSE DivBits(r2, n, acc \o digit, exp)

\* float(k) for an int k >= 0 of fewer than MantDig bits: exact.
IntToFloat(k) ==
    IF k = 0 THEN FloatZero
    ELSE [sig |-> Bin(k) \o Zeros(MantDig - Len(Bin(k))), exp |-> Len(Bin(k)) - 1]

Raise(e) == [raised |-> e]

Raised(v) == "raised" \in DOMAIN v

\* (mutant) a // b
TrueDivFloor(a, b) ==
    IF b = 0 THEN Raise("ZeroDivisionError") ELSE IntToFloat(a \div b)

\* a / b for ints a >= 0, b >= 0 (true division).
TrueDiv(a, b) ==
    IF b = 0 THEN Raise("ZeroDivisionError")
    ELSE IF a = 0 THEN FloatZero
    ELSE LET q == Bin(a \div b)
         IN  DivBits(a % b, b, q, IF q = <<>> THEN -1 ELSE Len(q) - 1)

---------------------------------------------------------------------------
(* MessageProcessor.  Its store is the MessageStore above. *)

\* the analysis mapping built by process_message
Analysis(content) ==
    [word_count   |-> Len(Split(content)),
     char_count   |-> Len(content),
     has_question |-> StrIn(<<"?">>, content)]

\* MessageProcessor.process_message
process_message(h, m) ==
    LET analysis == Analysis(h[m].content)
        h2       == [h EXCEPT ![m] = add_metadata(h[m], "analysis", analysis)]
    IN  /\ heap' = h2
        /\ add_message(h2, m)
        /\ ret' = analysis

\* the loop of get_conversation_stats over msgs[i..]
RECURSIVE StatsLoop(_, _, _)
StatsLoop(msgs, i, acc) ==
    IF i > Len(msgs) THEN acc
    ELSE LET msg == heap[msgs[i]]
             wc  == DictGet(DictGet(msg.metadata, "analysis", EmptyDict),
                            "word_count", 0)
         IN  StatsLoop(msgs, i + 1,
                 [platform_counts |->
                      DictSet(acc.platform_counts, msg.platform,
                              DictGet(acc.platform_counts, msg.platform, 0) + 1),
                  sender_counts |->
                      DictSet(acc.sender_counts, msg.sender,
                              DictGet(acc.sender_counts, msg.sender, 0) + 1),
                  total_words |-> acc.total_words + wc])

\* get_conversation_stats after the empty check
StatsOf(msgs) ==
    LET acc == StatsLoop(msgs, 1, [platform_counts |-> EmptyDict,
                                   sender_counts   |-> EmptyDict,
                                   total_words     |-> 0])
        avg == TrueDiv(acc.total_words, Len(msgs))
    IN  IF Raised(avg) THEN avg
        ELSE [message_count   |-> Len(msgs),
              platform_counts |-> acc.platform_counts,
              sender_counts   |-> acc.sender_counts,
              avg_word_count  |-> avg]

\* (mutant) no empty check before the average
get_conversation_stats_nocheck == StatsOf(get_messages(None, DefaultLimit))

\* (mutant) the whole history instead of the default window
get_conversation_stats_all ==
    IF messages = <<>> THEN [message_count |-> 0] ELSE StatsOf(messages)

\* MessageProcessor.get_conversation_stats: the value returned
\* (or the exception raised).
get_conversation_stats ==
    LET msgs == get_messages(None, DefaultLimit)
    IN  IF msgs = <<>> THEN [message_count |-> 0] ELSE StatsOf(msgs)

---------------------------------------------------------------------------
(* The callers' inputs. *)

Contents == { <<"H", "i", "?">> }

Senders == { "AI" }

Platforms == { "", "chatgpt", "claude" }

QueryPlatforms == { None } \cup { Some(p) : p \in Platforms }

Limits == { 0, 1, 2, DefaultLimit }

Keywords == { <<>>, <<"h", "I">>, <<"B">> }

Hello == <<"H", "e", "l", "l", "o", "?">>

TextContents ==
    { <<>>, <<" ">>, Hello, <<"h", "i", " ", "A">>,
      <<" ", "a", "\t", "\t", "b", " ">>, <<"?", "?">>, <<"a", "B">> }

TextKeywords ==
    { <<>>, <<"h", "I">>, <<"A">>, <<"a", "b">>, <<"?">>, <<" ">>, <<"i", "h">> }

\* (content, sender, platform) of the messages of SpecWindow
WindowInputs ==
    { << <<"h", "i", "S">>, "A", "p1" >>, << <<"S", "u", "p", " ", "h">>, "B", "p2" >> }

WindowKeywords == { <<>>, <<"H", "I">>, <<"s", "u">>, <<"i", "s", "u", "p", " ", "h">> }

Words4 == <<"a", " ", "b", " ", "a", " ", "b">>

Words5 == <<"a", " ", "b", " ", "a", " ", "b", " ", "a">>

\* (content, sender, platform) of the messages of SpecAvg
AvgProcessed == { <<Words4, "A", "p1">>, <<Words5, "B", "p2">> }

AvgAdded == { <<Words4, "B", "p1">> }

---------------------------------------------------------------------------
(* The state after construction: MessageProcessor.__init__ creates the     *)
(* MessageStore, whose __init__ sets both indexes empty.                   *)

Init ==
    /\ heap = <<>>
    /\ messages = <<>>
    /\ platforms = EmptyDict
    /\ call = [op |-> "__init__"]
    /\ ret = None

---------------------------------------------------------------------------
(* One action per call. *)

\* msg = ChatMessage(content, sender, platform)
NewMessage ==
    \E c \in Contents, s \in Senders, p \in Platforms :
        /\ Len(heap) < MaxObjs
        /\ heap' = Append(heap, ChatMessage(c, s, p, Len(heap) + 1))
        /\ call' = [op |-> "ChatMessage"]
        /\ ret' = Len(heap) + 1
        /\ UNCHANGED <<messages, platforms>>

\* store.add_message(m)
AddMessage ==
    \E m \in 1..Len(heap) :
        /\ Len(messages) < MaxStore
        /\ add_message(heap, m)
        /\ call' = [op |-> "add_message", msg |-> m]
        /\ ret' = None
        /\ UNCHANGED heap

\* processor.process_message(m)
ProcessMessage ==
    \E m \in 1..Len(heap) :
        /\ Len(messages) < MaxStore
        /\ process_message(heap, m)
        /\ call' = [op |-> "process_message", msg |-> m]

\* (mutant) self.platforms.setdefault(platform, []) for self.platforms.get
GetMessagesCallSetdefault(platform, limit) ==
    /\ ret' = get_messages(platform, limit)
    /\ call' = [op |-> "get_messages", platform |-> platform, limit |-> limit]
    /\ platforms' = IF Truthy(platform) /\ platform[1] \notin DOMAIN platforms
                    THEN DictSet(platforms, platform[1], <<>>)
                    ELSE platforms
    /\ UNCHANGED <<heap, messages>>

\* store.get_messages(platform, limit): reads only
GetMessagesCall(platform, limit) ==
    /\ ret' = get_messages(platform, limit)
    /\ call' = [op |-> "get_messages", platform |-> platform, limit |-> limit]
    /\ UNCHANGED <<heap, messages, platforms>>

GetMessages ==
    \E p \in QueryPlatforms, l \in Limits : GetMessagesCall(p, l)

\* store.search_messages(keyword): reads only
SearchMessagesCall(keyword) ==
    /\ ret' = search_messages(keyword)
    /\ call' = [op |-> "search_messages", keyword |-> keyword]
    /\ UNCHANGED <<heap, messages, platforms>>

SearchMessages ==
    \E k \in Keywords : SearchMessagesCall(k)

\* processor.get_conversation_stats()
GetConversationStats ==
    /\ ret' = get_conversation_stats
    /\ call' = [op |-> "get_conversation_stats"]
    /\ UNCHANGED <<heap, messages, platforms>>

Next ==
    \/ NewMessage
    \/ AddMessage
    \/ ProcessMessage
    \/ GetMessages
    \/ SearchMessages
    \/ GetConversationStats

Spec == Init /\ [][Next]_vars

---------------------------------------------------------------------------
(* The callers of the repository, each a whole branch of its code. *)

\* chat_cli.main, choice "1": construct the message and process it
CliAdd(c, s, p) ==
    LET h == Append(heap, ChatMessage(c, s, p, Len(heap) + 1))
    IN  /\ process_message(h, Len(h))
        /\ call' = [op |-> "process_message", msg |-> Len(h)]

\* test_message_store: construct the message and add it to the store
StoreAdd(c, s, p) ==
    LET h == Append(heap, ChatMessage(c, s, p, Len(heap) + 1))
    IN  /\ heap' = h
        /\ add_message(h, Len(h))
        /\ call' = [op |-> "add_message", msg |-> Len(h)]
        /\ ret' = None

TextAdd ==
    \E c \in TextContents :
        Len(messages) < MaxText /\ CliAdd(c, "User", "cli")

\* chat_cli.main, choice "4"
TextSearch ==
    \E k \in TextKeywords : SearchMessagesCall(k)

NextText == TextAdd \/ TextSearch

SpecText == Init /\ [][NextText]_vars

WindowProcess ==
    \E i \in WindowInputs :
        Len(messages) < MaxWindow /\ CliAdd(i[1], i[2], i[3])

\* chat_cli.main, choice "3"
WindowStats == GetConversationStats

WindowSearch ==
    \E k \in WindowKeywords : SearchMessagesCall(k)

NextWindow == WindowProcess \/ WindowStats \/ WindowSearch

SpecWindow == Init /\ [][NextWindow]_vars

AvgProcess ==
    \E i \in AvgProcessed :
        Len(messages) < MaxAvg /\ CliAdd(i[1], i[2], i[3])

AvgAdd ==
    \E i \in AvgAdded :
        Len(messages) < MaxAvg /\ StoreAdd(i[1], i[2], i[3])

AvgStats == GetConversationStats

NextAvg == AvgProcess \/ AvgAdd \/ AvgStats

SpecAvg == Init /\ [][NextAvg]_vars

---------------------------------------------------------------------------
(* What the claims speak of, stated without the operators of the code. *)

\* the last k elements of s
LastN(s, k) == SubSeq(s, Len(s) - k + 1, Len(s))

\* the stored references whose message has platform P, in arrival order
OfPlatform(P) == SelectSeq(messages, LAMBDA m : heap[m].platform = P)

\* the positions of the global sequence that the default window covers
WindowIdx == (Len(messages) - Min(Len(messages), DefaultLimit) + 1)..Len(messages)

\* number of whitespace-delimited tokens: the positions where one starts
WordCount(c) ==
    Cardinality({i \in 1..Len(c) :
                    /\ c[i] \notin Whitespace
                    /\ (i = 1 \/ c[i - 1] \in Whitespace)})

CasePairs == { <<"a", "A">>, <<"b", "B">>, <<"h", "H">>, <<"i", "I">>, <<"s", "S">> }

SameLetter(x, y) == x = y \/ <<x, y>> \in CasePairs \/ <<y, x>> \in CasePairs

\* k occurs in c as a substring, letters compared without regard to case
ContainsIgnoreCase(c, k) ==
    \E i \in 0..(Len(c) - Len(k)) : \A j \in 1..Len(k) : SameLetter(c[i + j], k[j])

\* word_count of the analysis entry of a stored message, 0 without one
WordsOf(m) ==
    IF "analysis" \in DOMAIN heap[m].metadata
    THEN heap[m].metadata["analysis"].word_count
    ELSE 0

RECURSIVE SumWords(_)
SumWords(idx) ==
    IF idx = {} THEN 0
    ELSE LET i == CHOOSE j \in idx : TRUE
         IN  WordsOf(messages[i]) + SumWords(idx \ {i})

\* f * k for a float f and an int k >= 1: the product, rounded
FloatMulInt(f, k) ==
    IF f = FloatZero THEN FloatZero
    ELSE LET prod == MulAdd(f.sig, k, 0)
         IN  IF Len(prod) = MantDig THEN [sig |-> prod, exp |-> f.exp]
             ELSE RoundToFloat(prod, f.exp + (Len(prod) - MantDig), FALSE)

\* |f - a / b| is at most half a unit in the last place of the float f:
\* with f = sig * 2^(exp - MantDig + 1), |2 * sig * b - a * 2^(MantDig - exp)| <= b
NearestFloat(f, a, b) ==
    IF a = 0 THEN f = FloatZero
    ELSE /\ f # FloatZero
         /\ Len(f.sig) = MantDig
         /\ f.sig[1] = 1
         /\ LET lhs == MulAdd(f.sig, 2 * b, 0)
                rhs == Bin(a) \o Zeros(MantDig - f.exp)
            IN  \E d \in 0..b : MulAdd(lhs, 1, d) = rhs \/ MulAdd(rhs, 1, d) = lhs

---------------------------------------------------------------------------
(* C1: get_messages(limit = L) without a platform filter returns exactly   *)
(* the last min(N, L) of the N stored messages, in arrival order, for      *)
(* every L >= 0, L = 0 and L > N included.                                 *)
C1_GlobalWindow ==
    (call.op = "get_messages" /\ call.platform = None)
        => ret = LastN(messages, Min(Len(messages), call.limit))

(* C2: get_messages(platform = P) returns exactly the stored messages with *)
(* platform = P, in arrival order, windowed to the last `limit`, for every *)
(* text P, the empty text included; empty when no stored message has P.    *)
(* Stated for limit >= 1, where the window is the one of C1.               *)
C2_PlatformFilter ==
    (call.op = "get_messages" /\ call.platform # None /\ call.limit >= 1)
        => LET sub == OfPlatform(call.platform[1])
           IN  ret = LastN(sub, Min(Len(sub), call.limit))

(* C3: in every reachable state the two indexes agree: the sub-sequence of *)
(* every platform P is the global sequence filtered to platform = P, in    *)
(* the same order; every stored occurrence lies in exactly one             *)
(* sub-sequence, the one of its platform, and nothing else lies in any.    *)
C3_IndexesAgree ==
    /\ \A P \in DOMAIN platforms : platforms[P] = OfPlatform(P)
    /\ \A i \in 1..Len(messages) : heap[messages[i]].platform \in DOMAIN platforms
    /\ \A i \in 1..Len(messages) :
          Cardinality({P \in DOMAIN platforms :
                          \E j \in 1..Len(platforms[P]) :
                              platforms[P][j] = messages[i]}) = 1

C3_Witness ==
    /\ call.op = "process_message"
    /\ Len(messages) >= 3
    /\ Cardinality(DOMAIN platforms) >= 2
    /\ \E i, j \in 1..Len(messages) : i # j /\ messages[i] = messages[j]

(* C4: get_conversation_stats() counts only the default window, the last   *)
(* min(N, 10) of the N stored messages: message_count = min(N, 10), and    *)
(* platform_counts / sender_counts map each platform / sender of the       *)
(* window to its number of occurrences there, and nothing else.            *)
C4_StatsOverWindow ==
    call.op = "get_conversation_stats"
        => /\ ret.message_count = Min(Len(messages), DefaultLimit)
           /\ messages # <<>> =>
                /\ DOMAIN ret.platform_counts =
                       {heap[messages[i]].platform : i \in WindowIdx}
                /\ \A P \in DOMAIN ret.platform_counts :
                       ret.platform_counts[P] =
                           Cardinality({i \in WindowIdx : heap[messages[i]].platform = P})
                /\ DOMAIN ret.sender_counts =
                       {heap[messages[i]].sender : i \in WindowIdx}
                /\ \A S \in DOMAIN ret.sender_counts :
                       ret.sender_counts[S] =
                           Cardinality({i \in WindowIdx : heap[messages[i]].sender = S})

\* eleven messages stored, the oldest the only one of its platform and sender
C4_Witness ==
    /\ call.op = "get_conversation_stats"
    /\ Len(messages) = DefaultLimit + 1
    /\ heap[messages[1]].platform = "p1"
    /\ \A i \in 2..Len(messages) : heap[messages[i]].platform = "p2"
    /\ ret.message_count = DefaultLimit
    /\ ret.platform_counts = [P \in {"p2"} |-> DefaultLimit]
    /\ ret.sender_counts = [S \in {"B"} |-> DefaultLimit]

(* C5: get_conversation_stats() on an empty store returns exactly          *)
(* {"message_count": 0}, and in no reachable state does it raise           *)
(* ZeroDivisionError: the empty check comes before the average.            *)
C5_EmptyStatsNoDivByZero ==
    call.op = "get_conversation_stats"
        => /\ ~Raised(ret)
           /\ messages = <<>> => ret = [message_count |-> 0]
           /\ messages # <<>> => "avg_word_count" \in DOMAIN ret

C5_Witness ==
    /\ call.op = "get_conversation_stats"
    /\ messages = <<>>
    /\ heap # <<>>
    /\ ret = [message_count |-> 0]

(* C6: process_message(m) writes into m.metadata["analysis"] the mapping   *)
(* of word_count (whitespace-delimited tokens of the content), char_count  *)
(* (its length) and has_question (it contains "?"), appends m to the store *)
(* as the last element, carrying the analysis, and returns that mapping.   *)
C6_ProcessAnalysis ==
    call.op = "process_message"
        => LET m == call.msg
               c == heap[m].content
           IN  /\ DOMAIN ret = {"word_count", "char_count", "has_question"}
               /\ ret.word_count = WordCount(c)
               /\ ret.char_count = Len(c)
               /\ ret.has_question = (\E i \in 1..Len(c) : c[i] = "?")
               /\ DOMAIN heap[m].metadata = {"analysis"}
               /\ heap[m].metadata["analysis"] = ret
               /\ messages # <<>>
               /\ messages[Len(messages)] = m

\* "Hello?" after a message of two words between spaces and tabs
C6_Witness ==
    /\ call.op = "process_message"
    /\ Len(messages) = 2
    /\ heap[messages[1]].metadata["analysis"].word_count = 2
    /\ heap[messages[1]].metadata["analysis"].char_count = 6
    /\ heap[call.msg].content = Hello
    /\ ret = [word_count |-> 1, char_count |-> 6, has_question |-> TRUE]

C8_AvgTimesCountIsSum ==
    (call.op = "get_conversation_stats" /\ messages # <<>>)
        => FloatMulInt(ret.avg_word_count, ret.message_count)
               = IntToFloat(SumWords(WindowIdx))

(* C8 (amended): on a non-empty store avg_word_count is the float nearest  *)
(* to the sum of the analysis word counts of the window (0 for a message   *)
(* without analysis) divided by message_count, not truncated: it differs   *)
(* from the exact quotient by at most half a unit in its last place, and   *)
(* is that quotient whenever message_count divides the sum.                *)
C8_AvgIsNearestFloat ==
    (call.op = "get_conversation_stats" /\ messages # <<>>)
        => LET sum == SumWords(WindowIdx)
               n   == ret.message_count
           IN  /\ NearestFloat(ret.avg_word_count, sum, n)
               /\ sum % n = 0 => ret.avg_word_count = IntToFloat(sum \div n)

\* 29 words in 7 messages: the quotient is rounded, and 7 times it is not 29
C8_Witness ==
    /\ call.op = "get_conversation_stats"
    /\ ret.message_count = 7
    /\ SumWords(WindowIdx) = 29
    /\ FloatMulInt(ret.avg_word_count, ret.message_count) # IntToFloat(SumWords(WindowIdx))

(* C9: add_message(m) appends m to the global sequence (the old sequence   *)
(* stays a prefix) and to the sub-sequence of m.platform (empty before, if *)
(* the platform is new), changes no other sub-sequence and no message,     *)
(* and returns without error.                                              *)
C9_AddMessageFrame ==
    [][(vars' # vars /\ call'.op = "add_message")
          => LET m == call'.msg
                 p == heap[m].platform
             IN  /\ messages' = Append(messages, m)
                 /\ SubSeq(messages', 1, Len(messages)) = messages
                 /\ DOMAIN platforms' = DOMAIN platforms \cup {p}
                 /\ platforms'[p] =
                        Append(IF p \in DOMAIN platforms THEN platforms[p] ELSE <<>>, m)
                 /\ \A q \in DOMAIN platforms \ {p} : platforms'[q] = platforms[q]
                 /\ heap' = heap
                 /\ ret' = None]_vars

\* an add under a platform seen before, after one under another platform
C9_Witness ==
    /\ call.op = "add_message"
    /\ Cardinality(DOMAIN platforms) >= 2
    /\ Len(platforms[heap[call.msg].platform]) >= 2

(* C10: get_messages and search_messages only read: a call of either       *)
(* leaves the global sequence, every sub-sequence and every message as     *)
(* they were, so the same call made again, with no add_message or          *)
(* process_message in between, returns the same result.                    *)
C10_ReadsOnlyRead ==
    [][(call'.op \in {"get_messages", "search_messages"})
          => /\ messages' = messages
             /\ platforms' = platforms
             /\ heap' = heap
             /\ \A P \in QueryPlatforms, l \in Limits :
                   call' = [op |-> "get_messages", platform |-> P, limit |-> l]
                       => ret' = (get_messages(P, l))'
             /\ \A k \in Keywords :
                   call' = [op |-> "search_messages", keyword |-> k]
                       => ret' = (search_messages(k))'
             /\ call' = call => ret' = ret]_vars

\* a filtered read of an unseen platform and of a seen one
C10_Witness ==
    /\ call.op = "get_messages"
    /\ call.platform # None
    /\ call.platform[1] # ""
    /\ call.platform[1] \notin DOMAIN platforms
    /\ messages # <<>>
    /\ ret = <<>>

====
